---- MODULE Spec2Model ----
(***************************************************************************)
(* Model of the Home Assistant history adapter                             *)
(* (src/src/ha_history_mcp_server.py): the HomeAssistantClient, the time    *)
(* normalisation parse_time_string and the four query operations           *)
(* get_entity_history, get_entity_statistics, get_available_entities and    *)
(* get_logbook_entries.                                                     *)
(*                                                                         *)
(* Python str values are TLA+ strings (Len, SubSeq and \o act on them as on *)
(* sequences of characters).  An Optional[str] is a record                  *)
(* [some, val]; None is [some |-> FALSE, val |-> ""].                       *)
(***************************************************************************)
EXTENDS Integers, Sequences, FiniteSets, TLC

(***************************************************************************)
(* Python str primitives                                                    *)
(***************************************************************************)

\* x[i] for a str, 1-based
CharAt(s, i) == SubSeq(s, i, i)

\* `sub in s`
Contains(s, sub) ==
    \E i \in 0..(Len(s) - Len(sub)) : SubSeq(s, i + 1, i + Len(sub)) = sub

\* s.startswith(p)
StartsWith(s, p) == Len(p) <= Len(s) /\ SubSeq(s, 1, Len(p)) = p

UpperAlphabet == "ABCDEFGHIJKLMNOPQRSTUVWXYZ"
LowerAlphabet == "abcdefghijklmnopqrstuvwxyz"
Digits == "0123456789"

LowerChar(c) ==
    IF \E i \in 1..26 : CharAt(UpperAlphabet, i) = c
    THEN CharAt(LowerAlphabet, CHOOSE i \in 1..26 : CharAt(UpperAlphabet, i) = c)
    ELSE c

\* s.lower()
RECURSIVE Lower(_)
Lower(s) ==
    IF s = "" THEN "" ELSE LowerChar(CharAt(s, 1)) \o Lower(SubSeq(s, 2, Len(s)))

IsDigit(c) == \E i \in 1..10 : CharAt(Digits, i) = c
DigitVal(c) == (CHOOSE i \in 1..10 : CharAt(Digits, i) = c) - 1
AllDigits(s) == s # "" /\ \A i \in 1..Len(s) : IsDigit(CharAt(s, i))

\* int(s) for a string of decimal digits
RECURSIVE ToInt(_)
ToInt(s) ==
    IF s = "" THEN 0
    ELSE 10 * ToInt(SubSeq(s, 1, Len(s) - 1)) + DigitVal(CharAt(s, Len(s)))

\* "%0<w>d" % n, for n >= 0
RECURSIVE Pad(_, _)
Pad(n, w) ==
    IF w = 0 THEN "" ELSE Pad(n \div 10, w - 1) \o CharAt(Digits, (n % 10) + 1)

\* str(n) for an int
RECURSIVE NatStr(_)
NatStr(n) == IF n < 10 THEN CharAt(Digits, n + 1)
             ELSE NatStr(n \div 10) \o CharAt(Digits, (n % 10) + 1)
IntStr(n) == IF n < 0 THEN "-" \o NatStr(0 - n) ELSE NatStr(n)

\* s.split(sep) for a one-character sep
RECURSIVE Split(_, _)
Split(s, sep) ==
    IF ~Contains(s, sep) THEN <<s>>
    ELSE LET i == CHOOSE k \in 1..Len(s) :
                      /\ CharAt(s, k) = sep
                      /\ \A j \in 1..(k - 1) : CharAt(s, j) # sep
         IN  <<SubSeq(s, 1, i - 1)>> \o Split(SubSeq(s, i + 1, Len(s)), sep)

\* s.replace(old, new) for a one-character old
RECURSIVE Replace(_, _, _)
Replace(s, old, new) ==
    IF s = "" THEN ""
    ELSE (IF CharAt(s, 1) = old THEN new ELSE CharAt(s, 1))
             \o Replace(SubSeq(s, 2, Len(s)), old, new)

\* Optional[str]
None == [some |-> FALSE, val |-> ""]
Some(s) == [some |-> TRUE, val |-> s]
\* the truth value Python gives an Optional[str] in `if x:` / `x or y`
Truthy(o) == o.some /\ o.val # ""

(***************************************************************************)
(* datetime: the proleptic Gregorian calendar of Python's datetime module   *)
(***************************************************************************)

IsLeap(y) == y % 4 = 0 /\ (y % 100 # 0 \/ y % 400 = 0)

DaysInMonth(y, m) ==
    IF m = 2 THEN (IF IsLeap(y) THEN 29 ELSE 28)
    ELSE IF m \in {4, 6, 9, 11} THEN 30 ELSE 31

DaysBeforeYear(y) ==
    (y - 1) * 365 + ((y - 1) \div 4) - ((y - 1) \div 100) + ((y - 1) \div 400)

RECURSIVE DaysBeforeMonth(_, _)
DaysBeforeMonth(y, m) ==
    IF m = 1 THEN 0 ELSE DaysBeforeMonth(y, m - 1) + DaysInMonth(y, m - 1)

\* date.toordinal(): 0001-01-01 is day 1
Ymd2Ord(y, m, d) == DaysBeforeYear(y) + DaysBeforeMonth(y, m) + d

\* datetime.MINYEAR, datetime.MAXYEAR as ordinals
MinOrdinal == Ymd2Ord(1, 1, 1)
MaxOrdinal == Ymd2Ord(9999, 12, 31)

\* date.fromordinal(n), for MinOrdinal <= n <= MaxOrdinal
Ord2Ymd(n) ==
    LET y == CHOOSE yy \in ((n \div 366) + 1)..((n \div 365) + 1) :
                 DaysBeforeYear(yy) < n /\ n <= DaysBeforeYear(yy + 1)
        r == n - DaysBeforeYear(y)
        m == CHOOSE mm \in 1..12 :
                 DaysBeforeMonth(y, mm) < r /\ r <= DaysBeforeMonth(y, mm) + DaysInMonth(y, mm)
    IN  [year |-> y, month |-> m, day |-> r - DaysBeforeMonth(y, m)]

\* datetime(year, month, day, hour, minute, second, microsecond, tzinfo):
\* aware = FALSE is a naive datetime, else offset is the UTC offset in minutes
MkDt(y, mo, d, h, mi, s, us, aware, offset) ==
    [year |-> y, month |-> mo, day |-> d, hour |-> h, minute |-> mi,
     second |-> s, microsecond |-> us, aware |-> aware, offset |-> offset]

\* the field ranges the datetime constructor enforces (ValueError otherwise)
ValidDate(y, m, d) ==
    /\ y \in 1..9999
    /\ m \in 1..12
    /\ d >= 1 /\ d <= DaysInMonth(y, m)
ValidTime(h, mi, s) == h \in 0..23 /\ mi \in 0..59 /\ s \in 0..59

\* datetime.isoformat()
IsoFormat(dt) ==
    Pad(dt.year, 4) \o "-" \o Pad(dt.month, 2) \o "-" \o Pad(dt.day, 2) \o "T"
    \o Pad(dt.hour, 2) \o ":" \o Pad(dt.minute, 2) \o ":" \o Pad(dt.second, 2)
    \o (IF dt.microsecond # 0 THEN "." \o Pad(dt.microsecond, 6) ELSE "")
    \o (IF dt.aware
        THEN LET a == IF dt.offset < 0 THEN 0 - dt.offset ELSE dt.offset
             IN  (IF dt.offset < 0 THEN "-" ELSE "+")
                 \o Pad(a \div 60, 2) \o ":" \o Pad(a % 60, 2)
        ELSE "")

\* dt - timedelta(days=days, seconds=secs) on a naive datetime, 0 <= secs < 86400;
\* ok = FALSE is the OverflowError ("date value out of range")
DtMinus(dt, days, secs) ==
    LET sod == dt.hour * 3600 + dt.minute * 60 + dt.second - secs
        ord == Ymd2Ord(dt.year, dt.month, dt.day) - days + (sod \div 86400)
        rem == sod % 86400
    IN  IF ord < MinOrdinal \/ ord > MaxOrdinal
        THEN [ok |-> FALSE, dt |-> dt]
        ELSE LET ymd == Ord2Ymd(ord)
             IN  [ok |-> TRUE,
                  dt |-> MkDt(ymd.year, ymd.month, ymd.day, rem \div 3600,
                              (rem % 3600) \div 60, rem % 60, dt.microsecond,
                              dt.aware, dt.offset)]

\* datetime.now() - timedelta(hours=hours_back)
MinusHours(dt, hours_back) ==
    LET d == hours_back \div 24
    IN  DtMinus(dt, d, (hours_back - 24 * d) * 3600)

\* datetime.now() - timedelta(days=days_back)
MinusDays(dt, days_back) == DtMinus(dt, days_back, 0)

(***************************************************************************)
(* datetime.strptime and datetime.fromisoformat, as parse_time_string uses  *)
(* them.  A parse result is [ok, dt]; ok = FALSE is the ValueError.          *)
(***************************************************************************)

NoDt == MkDt(1, 1, 1, 0, 0, 0, 0, FALSE, 0)
ParseFail == [ok |-> FALSE, dt |-> NoDt]
ParseOk(dt) == [ok |-> TRUE, dt |-> dt]

\* the strptime directives: %Y is four digits; %m, %d, %H, %M, %S are one or
\* two digits in range (%d also a space and a digit)
FieldY(f) == Len(f) = 4 /\ AllDigits(f)
Field12(f) == Len(f) \in {1, 2} /\ AllDigits(f)
FieldM(f) == Field12(f) /\ ToInt(f) \in 1..12
FieldD(f) ==
    \/ Field12(f) /\ ToInt(f) \in 1..31
    \/ Len(f) = 2 /\ CharAt(f, 1) = " " /\ IsDigit(CharAt(f, 2)) /\ CharAt(f, 2) # "0"
FieldDVal(f) == IF CharAt(f, 1) = " " THEN ToInt(SubSeq(f, 2, 2)) ELSE ToInt(f)
FieldH(f) == Field12(f) /\ ToInt(f) \in 0..23
FieldMin(f) == Field12(f) /\ ToInt(f) \in 0..59
FieldS(f) == Field12(f) /\ ToInt(f) \in 0..61

\* "%Y-%m-%d" on s
StrpDateOk(s) ==
    LET p == Split(s, "-")
    IN  /\ Len(p) = 3
        /\ FieldY(p[1]) /\ FieldM(p[2]) /\ FieldD(p[3])
        /\ ValidDate(ToInt(p[1]), ToInt(p[2]), FieldDVal(p[3]))

\* "%H:%M:%S" on s
StrpTimeOk(s) ==
    LET p == Split(s, ":")
    IN  /\ Len(p) = 3
        /\ FieldH(p[1]) /\ FieldMin(p[2]) /\ FieldS(p[3])
        /\ ValidTime(ToInt(p[1]), ToInt(p[2]), ToInt(p[3]))

StrpBuild(d, t) ==
    LET p == Split(d, "-")
        q == Split(t, ":")
    IN  MkDt(ToInt(p[1]), ToInt(p[2]), FieldDVal(p[3]),
             ToInt(q[1]), ToInt(q[2]), ToInt(q[3]), 0, FALSE, 0)

\* datetime.strptime(s, "%Y-%m-%d")
StrptimeDate(s) ==
    IF StrpDateOk(s) THEN ParseOk(StrpBuild(s, "0:0:0")) ELSE ParseFail

\* datetime.strptime(s, "%Y-%m-%dT%H:%M:%S"): strptime matches the letters of
\* its format without regard to case
StrptimeT(s) ==
    LET p == Split(Replace(s, "t", "T"), "T")
    IN  IF Len(p) = 2 /\ StrpDateOk(p[1]) /\ StrpTimeOk(p[2])
        THEN ParseOk(StrpBuild(p[1], p[2])) ELSE ParseFail

\* datetime.strptime(s, "%Y-%m-%d %H:%M:%S"): the blank of the format matches
\* one or more blanks of s
AllBlank(s) == s # "" /\ \A i \in 1..Len(s) : CharAt(s, i) = " "
StrpSpaceCut(s, i, j) ==
    /\ StrpDateOk(SubSeq(s, 1, i))
    /\ AllBlank(SubSeq(s, i + 1, j))
    /\ StrpTimeOk(SubSeq(s, j + 1, Len(s)))
StrptimeSpace(s) ==
    IF \E i \in 1..Len(s) : \E j \in (i + 1)..Len(s) : StrpSpaceCut(s, i, j)
    THEN LET c == CHOOSE c \in (1..Len(s)) \X (1..Len(s)) :
                      c[1] < c[2] /\ StrpSpaceCut(s, c[1], c[2])
         IN  ParseOk(StrpBuild(SubSeq(s, 1, c[1]), SubSeq(s, c[2] + 1, Len(s))))
    ELSE ParseFail

\* two digits at s[i..i+1]
TwoDigits(s, i) == i + 1 <= Len(s) /\ AllDigits(SubSeq(s, i, i + 1))

\* the time part of fromisoformat: HH[:MM[:SS[.fff[fff]]]]
IsoTimeOk(t) ==
    /\ Len(t) \in {2, 5, 8, 12, 15}
    /\ TwoDigits(t, 1)
    /\ Len(t) >= 5 => CharAt(t, 3) = ":" /\ TwoDigits(t, 4)
    /\ Len(t) >= 8 => CharAt(t, 6) = ":" /\ TwoDigits(t, 7)
    /\ Len(t) >= 12 => CharAt(t, 9) = "." /\ AllDigits(SubSeq(t, 10, Len(t)))
IsoHour(t) == ToInt(SubSeq(t, 1, 2))
IsoMinute(t) == IF Len(t) >= 5 THEN ToInt(SubSeq(t, 4, 5)) ELSE 0
IsoSecond(t) == IF Len(t) >= 8 THEN ToInt(SubSeq(t, 7, 8)) ELSE 0
IsoMicro(t) ==
    IF Len(t) = 12 THEN 1000 * ToInt(SubSeq(t, 10, 12))
    ELSE IF Len(t) = 15 THEN ToInt(SubSeq(t, 10, 15)) ELSE 0

\* the UTC offset of fromisoformat: [+-]HH:MM, strictly inside a day
IsoOffsetOk(o) ==
    /\ Len(o) = 6
    /\ CharAt(o, 1) \in {"+", "-"}
    /\ TwoDigits(o, 2) /\ CharAt(o, 4) = ":" /\ TwoDigits(o, 5)
    /\ ToInt(SubSeq(o, 2, 3)) * 60 + ToInt(SubSeq(o, 5, 6)) < 1440
IsoOffset(o) ==
    LET a == ToInt(SubSeq(o, 2, 3)) * 60 + ToInt(SubSeq(o, 5, 6))
    IN  IF CharAt(o, 1) = "-" THEN 0 - a ELSE a

\* where the offset starts in the time string: the first "-", else the first "+"
IsoSignAt(t) ==
    IF Contains(t, "-") THEN Len(Split(t, "-")[1]) + 1
    ELSE IF Contains(t, "+") THEN Len(Split(t, "+")[1]) + 1
    ELSE 0

\* datetime.fromisoformat(s): YYYY-MM-DD[*HH[:MM[:SS[.fff[fff]]]][+HH:MM]]
FromIsoFormat(s) ==
    LET d == SubSeq(s, 1, 10)
        dateOk == /\ Len(s) >= 10
                  /\ AllDigits(SubSeq(s, 1, 4)) /\ CharAt(s, 5) = "-"
                  /\ TwoDigits(s, 6) /\ CharAt(s, 8) = "-" /\ TwoDigits(s, 9)
                  /\ ValidDate(ToInt(SubSeq(s, 1, 4)), ToInt(SubSeq(s, 6, 7)),
                               ToInt(SubSeq(s, 9, 10)))
        y == ToInt(SubSeq(s, 1, 4))
        mo == ToInt(SubSeq(s, 6, 7))
        dd == ToInt(SubSeq(s, 9, 10))
        rest == SubSeq(s, 12, Len(s))
        k == IsoSignAt(rest)
        t == IF k = 0 THEN rest ELSE SubSeq(rest, 1, k - 1)
        o == IF k = 0 THEN "" ELSE SubSeq(rest, k, Len(rest))
    IN  IF ~dateOk THEN ParseFail
        ELSE IF Len(s) = 10 THEN ParseOk(MkDt(y, mo, dd, 0, 0, 0, 0, FALSE, 0))
        ELSE IF /\ IsoTimeOk(t)
                /\ ValidTime(IsoHour(t), IsoMinute(t), IsoSecond(t))
                /\ k # 0 => IsoOffsetOk(o)
        THEN ParseOk(MkDt(y, mo, dd, IsoHour(t), IsoMinute(t), IsoSecond(t),
                          IsoMicro(t), k # 0, IF k = 0 THEN 0 ELSE IsoOffset(o)))
        ELSE ParseFail

(***************************************************************************)
(* parse_time_string: [ok, value]; ok = FALSE is the ValueError whose       *)
(* message is in value                                                      *)
(***************************************************************************)

InvalidTimeMessage(time_str) ==
    "Invalid time format: " \o time_str \o ". Use YYYY-MM-DD or ISO format."

\* variant: the "Z" is not replaced before fromisoformat
parse_time_string_keeps_z(time_str) ==
    IF StrptimeDate(time_str).ok
    THEN [ok |-> TRUE, value |-> IsoFormat(StrptimeDate(time_str).dt)]
    ELSE IF StrptimeT(time_str).ok
    THEN [ok |-> TRUE, value |-> IsoFormat(StrptimeT(time_str).dt)]
    ELSE IF StrptimeSpace(time_str).ok
    THEN [ok |-> TRUE, value |-> IsoFormat(StrptimeSpace(time_str).dt)]
    ELSE LET r == FromIsoFormat(time_str)
         IN  IF r.ok THEN [ok |-> TRUE, value |-> IsoFormat(r.dt)]
             ELSE [ok |-> FALSE, value |-> InvalidTimeMessage(time_str)]

parse_time_string(time_str) ==
    IF StrptimeDate(time_str).ok
    THEN [ok |-> TRUE, value |-> IsoFormat(StrptimeDate(time_str).dt)]
    ELSE IF StrptimeT(time_str).ok
    THEN [ok |-> TRUE, value |-> IsoFormat(StrptimeT(time_str).dt)]
    ELSE IF StrptimeSpace(time_str).ok
    THEN [ok |-> TRUE, value |-> IsoFormat(StrptimeSpace(time_str).dt)]
    ELSE LET r == FromIsoFormat(Replace(time_str, "Z", "+00:00"))
         IN  IF r.ok THEN [ok |-> TRUE, value |-> IsoFormat(r.dt)]
             ELSE [ok |-> FALSE, value |-> InvalidTimeMessage(time_str)]

(***************************************************************************)
(* HomeAssistantClient                                                      *)
(***************************************************************************)

\* REQUEST_TIMEOUT default, seconds
REQUEST_TIMEOUT == 30

\* HomeAssistantClient.__init__
HomeAssistantClient(base_url, token, timeout) ==
    [base_url |-> base_url,
     headers |-> [Authorization |-> "Bearer " \o token,
                  ContentType |-> "application/json"],
     timeout |-> timeout]

\* urllib.parse.urljoin(base, endpoint) for an endpoint that starts with "/":
\* the endpoint replaces the path of base
UrlOrigin(base) ==
    IF ~Contains(base, "://") THEN ""
    ELSE LET k == Len(Split(base, ":")[1]) + 3
             rest == SubSeq(base, k + 1, Len(base))
         IN  SubSeq(base, 1, k) \o Split(rest, "/")[1]
urljoin(base, endpoint) == UrlOrigin(base) \o endpoint

\* urllib.parse.quote(s): letters, digits and "_.-~/" are kept, every other
\* character is percent-encoded
QuoteChar(c) ==
    IF c = ":" THEN "%3A"
    ELSE IF c = "+" THEN "%2B"
    ELSE IF c = " " THEN "%20"
    ELSE c
RECURSIVE quote(_)
quote(s) == IF s = "" THEN "" ELSE QuoteChar(CharAt(s, 1)) \o quote(SubSeq(s, 2, Len(s)))

\* the GET that _make_request hands to httpx: url, headers, query parameters
Request(client, endpoint, params) ==
    [url |-> urljoin(client.base_url, endpoint),
     headers |-> client.headers,
     params |-> params,
     timeout |-> client.timeout]

\* What httpx does with one GET (client.get, raise_for_status, json):
\*   "ok"               a 2xx response whose body decodes to `body`
\*   "HTTPStatusError"  a non-2xx response with status_code and body text
\*   "RequestError"     no response: cannot connect, timeout; text is str(e)
\*   "Exception"        anything else, e.g. a 2xx body that is not JSON
Ok(body) == [kind |-> "ok", status_code |-> 200, text |-> "", body |-> body]
HttpFailures ==
    {[kind |-> "HTTPStatusError", status_code |-> 401, text |-> "401: Unauthorized", body |-> <<>>],
     [kind |-> "HTTPStatusError", status_code |-> 500, text |-> "", body |-> <<>>],
     [kind |-> "RequestError", status_code |-> 0, text |-> "All connection attempts failed", body |-> <<>>],
     [kind |-> "RequestError", status_code |-> 0, text |-> "", body |-> <<>>],
     [kind |-> "Exception", status_code |-> 200, text |-> "Expecting value: line 1 column 1 (char 0)", body |-> <<>>]}

\* variant: `except Exception` comes before `except httpx.RequestError`
make_request_catch_all_first(outcome) ==
    IF outcome.kind = "ok"
    THEN [ok |-> TRUE, data |-> outcome.body, error |-> ""]
    ELSE IF outcome.kind = "HTTPStatusError"
    THEN [ok |-> FALSE, data |-> <<>>,
          error |-> "Home Assistant API error: " \o IntStr(outcome.status_code)
                    \o " - " \o outcome.text]
    ELSE [ok |-> FALSE, data |-> <<>>,
          error |-> "Unexpected error: " \o outcome.text]

\* _make_request, from the outcome of its one GET: [ok, data, error]
make_request(outcome) ==
    IF outcome.kind = "ok"
    THEN [ok |-> TRUE, data |-> outcome.body, error |-> ""]
    ELSE IF outcome.kind = "HTTPStatusError"
    THEN [ok |-> FALSE, data |-> <<>>,
          error |-> "Home Assistant API error: " \o IntStr(outcome.status_code)
                    \o " - " \o outcome.text]
    ELSE IF outcome.kind = "RequestError"
    THEN [ok |-> FALSE, data |-> <<>>,
          error |-> "Failed to connect to Home Assistant: " \o outcome.text]
    ELSE [ok |-> FALSE, data |-> <<>>,
          error |-> "Unexpected error: " \o outcome.text]

\* HomeAssistantClient.get_entity_history up to its await: the request it sends.
\* start_time and end_time are Optional[str].
client_get_entity_history(client, entity_id, start_time, end_time, minimal_response) ==
    LET endpoint == "/api/history/period"
                    \o (IF Truthy(start_time) THEN "/" \o quote(start_time.val) ELSE "")
        params == ("filter_entity_id" :> entity_id)
                  @@ ("minimal_response" :> (IF minimal_response THEN "true" ELSE "false"))
    IN  Request(client, endpoint,
                IF Truthy(end_time) THEN params @@ ("end_time" :> end_time.val)
                ELSE params)

\* variant: the last inner list is taken
unwrap_history_last(data) == IF data # <<>> /\ Len(data) > 0 THEN data[Len(data)] ELSE <<>>

\* HomeAssistantClient.get_entity_history after its await: the unwrapping
unwrap_history(data) == IF data # <<>> /\ Len(data) > 0 THEN data[1] ELSE <<>>

\* HomeAssistantClient.get_entity_statistics up to its await
client_get_entity_statistics(client, entity_id, start_time, end_time, period) ==
    LET params == ("statistic_ids" :> entity_id) @@ ("start_time" :> start_time)
                  @@ ("period" :> period)
    IN  Request(client, "/api/history/statistics",
                IF Truthy(end_time) THEN params @@ ("end_time" :> end_time.val)
                ELSE params)

\* HomeAssistantClient.get_states up to its await (params or {})
client_get_states(client) == Request(client, "/api/states", <<>>)

\* HomeAssistantClient.get_logbook up to its await
client_get_logbook(client, start_time, end_time, entity_id) ==
    LET endpoint == "/api/logbook"
                    \o (IF Truthy(start_time) THEN "/" \o quote(start_time.val) ELSE "")
        p1 == IF Truthy(end_time) THEN ("end_time" :> end_time.val) ELSE <<>>
    IN  Request(client, endpoint,
                IF Truthy(entity_id) THEN p1 @@ ("entity" :> entity_id.val) ELSE p1)

(***************************************************************************)
(* The query operations.  Each is the code up to its one await (Begin: the  *)
(* input checks, the time range and the request handed to the client) and   *)
(* the code after it (Finish: the response envelope); both run inside the   *)
(* operation's try block, whose except clause re-raises every exception as  *)
(* ValueError("Failed to ...: <cause>").                                     *)
(***************************************************************************)

DefaultHoursBack == 24
DefaultDaysBack == 7
DefaultEntitiesLimit == 100
DefaultLogbookLimit == 50

NoEnvelope == <<>>
NoResult == [status |-> "none", exc |-> "", message |-> "", envelope |-> NoEnvelope]
Returned(envelope) == [status |-> "ok", exc |-> "", message |-> "", envelope |-> envelope]

\* variant: the except clause re-raises the exception it caught as it is
OperationFailed_reraised(what, cause) ==
    [status |-> "error", exc |-> "ValueError", message |-> cause, envelope |-> NoEnvelope]

\* except Exception as e: raise ValueError(f"Failed to ...: {str(e)}")
OperationFailed(what, cause) ==
    [status |-> "error", exc |-> "ValueError",
     message |-> what \o ": " \o cause, envelope |-> NoEnvelope]

HistoryFailed == "Failed to get entity history"
StatisticsFailed == "Failed to get entity statistics"
EntitiesFailed == "Failed to get available entities"
LogbookFailed == "Failed to get logbook entries"

EntityIdMessage == "entity_id must be in format 'domain.entity_name'"
PeriodMessage == "period must be one of: hour, day, week, month"
\* str(e) of the OverflowError of datetime - timedelta
OverflowMessage == "date value out of range"

\* variant: only the empty entity_id is rejected
valid_entity_id_nonempty(entity_id) == entity_id # ""

\* the negation of `not entity_id or "." not in entity_id`
valid_entity_id(entity_id) == entity_id # "" /\ Contains(entity_id, ".")

\* variant: "week" is missing from the list
valid_periods_without_week == {"hour", "day", "month"}

valid_periods == {"hour", "day", "week", "month"}

\* the start_time and end_time arguments the invocations are given
TimeInputs == {None, Some(""), Some("2024-01-15"), Some("2024-01-15T10:30:00Z"),
               Some("not-a-date")}

\* parse_time_string on each of them, computed once
Normalized == [t \in {o.val : o \in TimeInputs} |-> parse_time_string(t)]

\* variant: the relative default is used even when start_time is given
determine_start_relative(start_time, dflt) ==
    IF dflt.ok THEN [ok |-> TRUE, value |-> IsoFormat(dflt.dt)]
    ELSE [ok |-> FALSE, value |-> OverflowMessage]

\* "Determine time range", start: [ok, value]; value is the start or the cause
determine_start(start_time, dflt) ==
    IF Truthy(start_time) THEN Normalized[start_time.val]
    ELSE IF dflt.ok THEN [ok |-> TRUE, value |-> IsoFormat(dflt.dt)]
    ELSE [ok |-> FALSE, value |-> OverflowMessage]

\* "Determine time range", end: [ok, value, error]; value is the Optional[str]
\* the local end_time holds afterwards
normalized_end(end_time, r) ==
    IF r.ok THEN [ok |-> TRUE, value |-> Some(r.value), error |-> ""]
    ELSE [ok |-> FALSE, value |-> end_time, error |-> r.value]
determine_end(end_time) ==
    IF Truthy(end_time) THEN normalized_end(end_time, Normalized[end_time.val])
    ELSE [ok |-> TRUE, value |-> end_time, error |-> ""]

\* variant: only None is replaced by the current time (`is None` for `or`)
end_or_now_if_none(end_time, now) == IF end_time.some THEN end_time.val ELSE IsoFormat(now)

\* variant: the envelope's end_time is always the current time
end_or_now_always(end_time, now) == IsoFormat(now)

\* end_time or datetime.now().isoformat()
end_or_now(end_time, now) == IF Truthy(end_time) THEN end_time.val ELSE IsoFormat(now)

\* variant: the states are fetched before the inputs are looked at
BeginFailed_after_request(cause) ==
    [ok |-> FALSE, error |-> cause, start_time |-> "", end_time |-> None,
     requests |-> <<Request(HomeAssistantClient("http://ha.local:8123", "token",
                                                REQUEST_TIMEOUT),
                            "/api/states", <<>>)>>]

\* an exception before the await: nothing was sent
BeginFailed(cause) ==
    [ok |-> FALSE, error |-> cause, start_time |-> "", end_time |-> None, requests |-> <<>>]
\* variant: the GET is issued a second time
BeginSent_twice(start_time, end_time, request) ==
    [ok |-> TRUE, error |-> "", start_time |-> start_time, end_time |-> end_time,
     requests |-> <<request, request>>]
BeginSent(start_time, end_time, request) ==
    [ok |-> TRUE, error |-> "", start_time |-> start_time, end_time |-> end_time,
     requests |-> <<request>>]

\* get_entity_history up to the await of the client's GET; s and e are the
\* outcomes of "Determine time range"
history_checks(client, a, s, e) ==
    IF ~valid_entity_id(a.entity_id.val) THEN BeginFailed(EntityIdMessage)
    ELSE IF ~s.ok THEN BeginFailed(s.value)
    ELSE IF ~e.ok THEN BeginFailed(e.error)
    ELSE BeginSent(s.value, e.value,
                   client_get_entity_history(client, a.entity_id.val, Some(s.value),
                                             e.value, a.minimal_response))
history_begin(client, now, a) ==
    history_checks(client, a,
                   determine_start(a.start_time, MinusHours(now, a.hours_back)),
                   determine_end(a.end_time))

\* get_entity_history from the outcome of the GET on
history_finish(a, start_time, end_time, outcome, now) ==
    LET r == make_request(outcome)
        history_data == unwrap_history(r.data)
    IN  IF ~r.ok THEN OperationFailed(HistoryFailed, r.error)
        ELSE Returned([entity_id |-> a.entity_id.val,
                       data_points |-> Len(history_data),
                       start_time |-> start_time,
                       end_time |-> end_or_now(end_time, now),
                       history |-> history_data])

\* get_entity_statistics up to the await
statistics_checks(client, a, s, e) ==
    IF ~valid_entity_id(a.entity_id.val) THEN BeginFailed(EntityIdMessage)
    ELSE IF a.period \notin valid_periods THEN BeginFailed(PeriodMessage)
    ELSE IF ~s.ok THEN BeginFailed(s.value)
    ELSE IF ~e.ok THEN BeginFailed(e.error)
    ELSE BeginSent(s.value, e.value,
                   client_get_entity_statistics(client, a.entity_id.val, s.value,
                                                e.value, a.period))
statistics_begin(client, now, a) ==
    statistics_checks(client, a,
                      determine_start(a.start_time, MinusDays(now, a.days_back)),
                      determine_end(a.end_time))

\* stats_data.get(entity_id, [])
stats_get(stats_data, entity_id) ==
    IF entity_id \in DOMAIN stats_data THEN stats_data[entity_id] ELSE <<>>

\* get_entity_statistics from the outcome of the GET on
statistics_finish(a, start_time, end_time, outcome, now) ==
    LET r == make_request(outcome)
    IN  IF ~r.ok THEN OperationFailed(StatisticsFailed, r.error)
        ELSE Returned([entity_id |-> a.entity_id.val,
                       period |-> a.period,
                       start_time |-> start_time,
                       end_time |-> end_or_now(end_time, now),
                       statistics |-> stats_get(r.data, a.entity_id.val)])

\* dict.get(key, default) on a key that may be missing
Get(field, default) == IF field.some THEN field.val ELSE default

\* variant: the search term is looked for in entity_id only
entity_matches_id_only(state, domain_filter, search_term) ==
    LET entity_id == Get(state.entity_id, "")
    IN  /\ ~(Truthy(domain_filter) /\ ~StartsWith(entity_id, domain_filter.val \o "."))
        /\ ~(/\ Truthy(search_term)
             /\ ~Contains(Lower(entity_id), Lower(search_term.val)))

\* the two filters of get_available_entities: TRUE when the state is kept
entity_matches(state, domain_filter, search_term) ==
    LET entity_id == Get(state.entity_id, "")
        friendly_name == Get(state.friendly_name, entity_id)
    IN  /\ ~(Truthy(domain_filter) /\ ~StartsWith(entity_id, domain_filter.val \o "."))
        /\ ~(/\ Truthy(search_term)
             /\ ~Contains(Lower(entity_id), Lower(search_term.val))
             /\ ~Contains(Lower(friendly_name), Lower(search_term.val)))

\* the dict appended to filtered_entities
entity_summary(state) ==
    LET entity_id == Get(state.entity_id, "")
    IN  [entity_id |-> entity_id,
         friendly_name |-> Get(state.friendly_name, entity_id),
         domain |-> Split(entity_id, ".")[1],
         state |-> Get(state.state, "unknown"),
         unit_of_measurement |-> Get(state.unit_of_measurement, "")]

\* the loop over states
RECURSIVE filter_entities(_, _, _)
filter_entities(states, domain_filter, search_term) ==
    IF states = <<>> THEN <<>>
    ELSE (IF entity_matches(Head(states), domain_filter, search_term)
          THEN <<entity_summary(Head(states))>> ELSE <<>>)
         \o filter_entities(Tail(states), domain_filter, search_term)

\* items[:limit], Python slice semantics (a negative limit counts from the end)
slice_to(items, limit) ==
    LET n == Len(items)
        stop == IF limit < 0 THEN (IF n + limit < 0 THEN 0 ELSE n + limit)
                ELSE IF limit > n THEN n ELSE limit
    IN  SubSeq(items, 1, stop)

\* "Apply limit"
apply_limit(items, limit) == IF Len(items) > limit THEN slice_to(items, limit) ELSE items

\* get_available_entities up to the await
entities_begin(client, now, a) == BeginSent("", None, client_get_states(client))

\* get_available_entities from the outcome of the GET on
entities_finish(a, start_time, end_time, outcome, now) ==
    LET r == make_request(outcome)
        filtered_entities ==
            apply_limit(filter_entities(r.data, a.domain_filter, a.search_term), a.limit)
    IN  IF ~r.ok THEN OperationFailed(EntitiesFailed, r.error)
        ELSE Returned([total_entities |-> Len(filtered_entities),
                       entities |-> filtered_entities])

\* get_logbook_entries up to the await
logbook_checks(client, a, s, e) ==
    IF ~s.ok THEN BeginFailed(s.value)
    ELSE IF ~e.ok THEN BeginFailed(e.error)
    ELSE BeginSent(s.value, e.value,
                   client_get_logbook(client, Some(s.value), e.value, a.entity_id))
logbook_begin(client, now, a) ==
    logbook_checks(client, a,
                   determine_start(a.start_time, MinusHours(now, a.hours_back)),
                   determine_end(a.end_time))

\* get_logbook_entries from the outcome of the GET on
logbook_finish(a, start_time, end_time, outcome, now) ==
    LET r == make_request(outcome)
        logbook_data == apply_limit(r.data, a.limit)
    IN  IF ~r.ok THEN OperationFailed(LogbookFailed, r.error)
        ELSE Returned([entry_count |-> Len(logbook_data),
                       start_time |-> start_time,
                       end_time |-> end_or_now(end_time, now),
                       entries |-> logbook_data])

(***************************************************************************)
(* Bounds and the inputs drawn from them                                    *)
(***************************************************************************)

\* how often the clock advances in a behaviour
MaxTicks == 2
\* the longest list the upstream returns
MaxItems == 2
\* limit ranges over -MaxLimit..MaxLimit and the operation's default
MaxLimit == 2

EntityIds == {"", "sensor", "sensor.temp", "."}
\* the last value is further back than year 1
HoursBackInputs == {DefaultHoursBack, 1, 20000000}
DaysBackInputs == {DefaultDaysBack, 800000}
PeriodInputs == {"hour", "day", "week", "month", "fortnight", ""}
DomainFilters == {None, Some(""), Some("sensor"), Some("switch")}
SearchTerms == {None, Some(""), Some("fan"), Some("ROOM")}
LogbookEntityIds == {None, Some("sensor.temp")}
Limits(default) == ((0 - MaxLimit)..MaxLimit) \cup {default}

\* every sequence over S of length at most n
RECURSIVE SeqsUpTo(_, _)
SeqsUpTo(S, n) ==
    IF n = 0 THEN {<<>>}
    ELSE LET shorter == SeqsUpTo(S, n - 1)
         IN  shorter \cup {Append(q, e) : q \in shorter, e \in S}

\* what the upstream can answer with a 2xx
HistoryPoints == {[state |-> "21.5"], [state |-> "22.0"]}
HistoryBodies == SeqsUpTo(SeqsUpTo(HistoryPoints, 1), MaxItems)
                 \cup {<<q>> : q \in SeqsUpTo(HistoryPoints, MaxItems)}
StatisticPoints == {[mean |-> 21], [mean |-> 22]}
StatisticsBodies ==
    {<<>>} \cup {("sensor.temp" :> q) : q \in SeqsUpTo(StatisticPoints, MaxItems)}
           \cup {("sensor.other" :> q) : q \in SeqsUpTo(StatisticPoints, 1)}
StateRecords ==
    {[entity_id |-> Some("sensor.temp"), friendly_name |-> Some("Living Room Temp"),
      state |-> Some("21.5"), unit_of_measurement |-> Some("C")],
     [entity_id |-> Some("switch.fan"), friendly_name |-> None,
      state |-> Some("on"), unit_of_measurement |-> None],
     [entity_id |-> Some("sensorx.Fan"), friendly_name |-> Some("sensor.room"),
      state |-> None, unit_of_measurement |-> None]}
StatesBodies == SeqsUpTo(StateRecords, MaxItems)
LogbookRecords == {[name |-> "Fan", message |-> "turned on"],
                   [name |-> "Temp", message |-> "changed"]}
LogbookBodies == SeqsUpTo(LogbookRecords, MaxItems)

Outcomes(bodies) == {Ok(b) : b \in bodies} \cup HttpFailures

NoArgs ==
    [entity_id |-> None, hours_back |-> 0, days_back |-> 0, start_time |-> None,
     end_time |-> None, minimal_response |-> TRUE, period |-> "",
     domain_filter |-> None, search_term |-> None, limit |-> 0]

(***************************************************************************)
(* The state: the client built at import, the clock, and one invocation     *)
(***************************************************************************)

VARIABLES
    ha_client,   \* the module-level HomeAssistantClient
    clock,       \* what datetime.now() returns
    ticks,       \* how often the clock has advanced
    pc,          \* "idle", "awaiting" (suspended in the client's GET), "done"
    op,          \* the operation invoked
    args,        \* its arguments
    start_time,  \* the local start_time after "Determine time range"
    end_time,    \* the local end_time after "Determine time range"
    requests,    \* the GETs this invocation has issued, in order
    response,    \* the outcome of the GET, once it has one
    result,      \* what the invocation gives its caller
    tasks,       \* the invocations that run concurrently on the event loop
    time_str,    \* the argument of a direct call of parse_time_string
    parsed       \* what that call returned or raised

NoResponse == [kind |-> "none", status_code |-> 0, text |-> "", body |-> <<>>]

vars == <<ha_client, clock, ticks, pc, op, args, start_time, end_time, requests,
          response, result, tasks, time_str, parsed>>

\* an invocation that has not been called: the locals of one coroutine
IdleTask ==
    [pc |-> "idle", op |-> "none", args |-> NoArgs, start_time |-> "",
     end_time |-> None, requests |-> <<>>, response |-> NoResponse,
     result |-> NoResult]
\* the coroutines of the event loop
Tasks == {"a", "b"}
\* parse_time_string has not been called
NotParsed == [ok |-> FALSE, value |-> ""]

Init ==
    /\ ha_client = HomeAssistantClient("http://ha.local:8123", "token", REQUEST_TIMEOUT)
    /\ clock = MkDt(2024, 2, 29, 23, 59, 59, 123456, FALSE, 0)
    /\ ticks = 0
    /\ pc = "idle"
    /\ op = "none"
    /\ args = NoArgs
    /\ start_time = ""
    /\ end_time = None
    /\ requests = <<>>
    /\ response = NoResponse
    /\ result = NoResult
    /\ tasks = [t \in Tasks |-> IdleTask]
    /\ time_str = ""
    /\ parsed = NotParsed

\* time passes: one second
Tick ==
    /\ ticks < MaxTicks
    /\ ticks' = ticks + 1
    /\ clock' = DtMinus(clock, 0, 0 - 1).dt
    /\ UNCHANGED <<ha_client, pc, op, args, start_time, end_time, requests, response,
                   result, tasks, time_str, parsed>>

\* an operation runs from its call to its await, or to the exception it raises
\* before: b is the operation's Begin
Begin(name, a, what, b) ==
    /\ op' = name
    /\ args' = a
    /\ start_time' = b.start_time
    /\ end_time' = b.end_time
    /\ requests' = b.requests
    /\ pc' = IF b.ok THEN "awaiting" ELSE "done"
    /\ result' = IF b.ok THEN NoResult ELSE OperationFailed(what, b.error)
    /\ UNCHANGED <<ha_client, clock, ticks, response, tasks, time_str, parsed>>

\* the GET completes with `outcome` and the operation runs to its end
Finish(outcome, r) ==
    /\ response' = outcome
    /\ result' = r
    /\ pc' = "done"
    /\ UNCHANGED <<ha_client, clock, ticks, op, args, start_time, end_time, requests,
                   tasks, time_str, parsed>>

CallHistory ==
    /\ pc = "idle"
    /\ \E e \in EntityIds, h \in HoursBackInputs, s \in TimeInputs, t \in TimeInputs,
       m \in BOOLEAN :
        LET a == [NoArgs EXCEPT !.entity_id = Some(e), !.hours_back = h,
                                !.start_time = s, !.end_time = t,
                                !.minimal_response = m]
        IN  Begin("get_entity_history", a, HistoryFailed, history_begin(ha_client, clock, a))

ResumeHistory ==
    /\ pc = "awaiting" /\ op = "get_entity_history"
    /\ \E o \in Outcomes(HistoryBodies) :
        Finish(o,
               history_finish(args, start_time, end_time, o, clock))

CallStatistics ==
    /\ pc = "idle"
    /\ \E e \in EntityIds, d \in DaysBackInputs, s \in TimeInputs, t \in TimeInputs,
       p \in PeriodInputs :
        LET a == [NoArgs EXCEPT !.entity_id = Some(e), !.days_back = d,
                                !.start_time = s, !.end_time = t, !.period = p]
        IN  Begin("get_entity_statistics", a, StatisticsFailed,
                  statistics_begin(ha_client, clock, a))

ResumeStatistics ==
    /\ pc = "awaiting" /\ op = "get_entity_statistics"
    /\ \E o \in Outcomes(StatisticsBodies) :
        Finish(o,
               statistics_finish(args, start_time, end_time, o, clock))

CallEntities ==
    /\ pc = "idle"
    /\ \E d \in DomainFilters, s \in SearchTerms, l \in Limits(DefaultEntitiesLimit) :
        LET a == [NoArgs EXCEPT !.domain_filter = d, !.search_term = s, !.limit = l]
        IN  Begin("get_available_entities", a, EntitiesFailed,
                  entities_begin(ha_client, clock, a))

ResumeEntities ==
    /\ pc = "awaiting" /\ op = "get_available_entities"
    /\ \E o \in Outcomes(StatesBodies) :
        Finish(o,
               entities_finish(args, start_time, end_time, o, clock))

CallLogbook ==
    /\ pc = "idle"
    /\ \E h \in HoursBackInputs, s \in TimeInputs, t \in TimeInputs,
       e \in LogbookEntityIds, l \in Limits(DefaultLogbookLimit) :
        LET a == [NoArgs EXCEPT !.hours_back = h, !.start_time = s, !.end_time = t,
                                !.entity_id = e, !.limit = l]
        IN  Begin("get_logbook_entries", a, LogbookFailed, logbook_begin(ha_client, clock, a))

ResumeLogbook ==
    /\ pc = "awaiting" /\ op = "get_logbook_entries"
    /\ \E o \in Outcomes(LogbookBodies) :
        Finish(o,
               logbook_finish(args, start_time, end_time, o, clock))

\* the caller has the result; the next invocation starts from nothing
Return ==
    /\ pc = "done"
    /\ pc' = "idle"
    /\ op' = "none"
    /\ args' = NoArgs
    /\ start_time' = ""
    /\ end_time' = None
    /\ requests' = <<>>
    /\ response' = NoResponse
    /\ result' = NoResult
    /\ UNCHANGED <<ha_client, clock, ticks, tasks, time_str, parsed>>

Next ==
    \/ Tick
    \/ CallHistory \/ ResumeHistory
    \/ CallStatistics \/ ResumeStatistics
    \/ CallEntities \/ ResumeEntities
    \/ CallLogbook \/ ResumeLogbook
    \/ Return

Spec == Init /\ [][Next]_vars

(***************************************************************************)
(* Two invocations on the event loop. Each coroutine has its own locals;    *)
(* what they share is the module-level ha_client and the clock. A coroutine *)
(* runs without interruption from its call to its await and from the        *)
(* completion of its GET to its end; the steps of the two interleave in any *)
(* order, so one may be called, or called again, while the other is         *)
(* suspended or after it has ended.                                         *)
(***************************************************************************)

\* the arguments and the upstream answers of these invocations
TaskEntityIds == {"sensor.temp", "sensor"}
TaskStartTimes == {None, Some("2024-01-15")}
TaskEndTimes == {None, Some("2024-01-15T10:30:00Z")}
TaskDomainFilters == {None, Some("sensor")}
Unauthorized ==
    [kind |-> "HTTPStatusError", status_code |-> 401, text |-> "401: Unauthorized",
     body |-> <<>>]
TaskOutcomes(body) == {Ok(<<>>), Ok(body), Unauthorized}

\* variant: _make_request keeps the url it has built as the client's base_url
client_keeps_last_url(client, sent) ==
    IF sent = <<>> THEN client ELSE [client EXCEPT !.base_url = sent[1].url]

\* the client after the requests `sent`: _make_request and the four client
\* methods read self.base_url, self.headers, self.timeout and assign none
client_after(client, sent) == client

\* the coroutine t runs from its call to its await, or to the exception it
\* raises before: b is the operation's Begin
TaskBegin(t, name, a, what, b) ==
    /\ tasks' = [tasks EXCEPT ![t] =
                   [pc |-> IF b.ok THEN "awaiting" ELSE "done",
                    op |-> name, args |-> a,
                    start_time |-> b.start_time, end_time |-> b.end_time,
                    requests |-> b.requests, response |-> NoResponse,
                    result |-> IF b.ok THEN NoResult ELSE OperationFailed(what, b.error)]]
    /\ ha_client' = client_after(ha_client, b.requests)
    /\ UNCHANGED <<clock, ticks, pc, op, args, start_time, end_time, requests,
                   response, result, time_str, parsed>>

\* the GET of the coroutine t completes with `outcome` and it runs to its end
TaskFinish(t, outcome, r) ==
    /\ tasks' = [tasks EXCEPT ![t].response = outcome, ![t].result = r,
                              ![t].pc = "done"]
    /\ UNCHANGED <<ha_client, clock, ticks, pc, op, args, start_time, end_time,
                   requests, response, result, time_str, parsed>>

TaskCallHistory(t) ==
    /\ tasks[t].pc = "idle"
    /\ \E e \in TaskEntityIds, s \in TaskStartTimes, u \in TaskEndTimes :
        LET a == [NoArgs EXCEPT !.entity_id = Some(e), !.hours_back = DefaultHoursBack,
                                !.start_time = s, !.end_time = u]
        IN  TaskBegin(t, "get_entity_history", a, HistoryFailed,
                      history_begin(ha_client, clock, a))

TaskResumeHistory(t) ==
    /\ tasks[t].pc = "awaiting" /\ tasks[t].op = "get_entity_history"
    /\ \E o \in TaskOutcomes(<<<<[state |-> "21.5"]>>>>) :
        TaskFinish(t, o, history_finish(tasks[t].args, tasks[t].start_time,
                                        tasks[t].end_time, o, clock))

TaskCallStatistics(t) ==
    /\ tasks[t].pc = "idle"
    /\ \E s \in TaskStartTimes, u \in TaskEndTimes :
        LET a == [NoArgs EXCEPT !.entity_id = Some("sensor.temp"),
                                !.days_back = DefaultDaysBack,
                                !.start_time = s, !.end_time = u, !.period = "day"]
        IN  TaskBegin(t, "get_entity_statistics", a, StatisticsFailed,
                      statistics_begin(ha_client, clock, a))

TaskResumeStatistics(t) ==
    /\ tasks[t].pc = "awaiting" /\ tasks[t].op = "get_entity_statistics"
    /\ \E o \in TaskOutcomes("sensor.temp" :> <<[mean |-> 21]>>) :
        TaskFinish(t, o, statistics_finish(tasks[t].args, tasks[t].start_time,
                                           tasks[t].end_time, o, clock))

TaskCallEntities(t) ==
    /\ tasks[t].pc = "idle"
    /\ \E d \in TaskDomainFilters :
        LET a == [NoArgs EXCEPT !.domain_filter = d, !.limit = DefaultEntitiesLimit]
        IN  TaskBegin(t, "get_available_entities", a, EntitiesFailed,
                      entities_begin(ha_client, clock, a))

TaskResumeEntities(t) ==
    /\ tasks[t].pc = "awaiting" /\ tasks[t].op = "get_available_entities"
    /\ \E o \in TaskOutcomes(<<CHOOSE r \in StateRecords : r.entity_id = Some("switch.fan")>>) :
        TaskFinish(t, o, entities_finish(tasks[t].args, tasks[t].start_time,
                                         tasks[t].end_time, o, clock))

TaskCallLogbook(t) ==
    /\ tasks[t].pc = "idle"
    /\ \E s \in TaskStartTimes, u \in TaskEndTimes :
        LET a == [NoArgs EXCEPT !.hours_back = DefaultHoursBack, !.start_time = s,
                                !.end_time = u, !.limit = DefaultLogbookLimit]
        IN  TaskBegin(t, "get_logbook_entries", a, LogbookFailed,
                      logbook_begin(ha_client, clock, a))

TaskResumeLogbook(t) ==
    /\ tasks[t].pc = "awaiting" /\ tasks[t].op = "get_logbook_entries"
    /\ \E o \in TaskOutcomes(<<[name |-> "Fan", message |-> "turned on"]>>) :
        TaskFinish(t, o, logbook_finish(tasks[t].args, tasks[t].start_time,
                                        tasks[t].end_time, o, clock))

\* the caller drops the result of the coroutine t and may call again
TaskForget(t) ==
    /\ tasks[t].pc = "done"
    /\ tasks' = [tasks EXCEPT ![t] = IdleTask]
    /\ UNCHANGED <<ha_client, clock, ticks, pc, op, args, start_time, end_time,
                   requests, response, result, time_str, parsed>>

NextConcurrent ==
    \/ Tick
    \/ \E t \in Tasks :
        \/ TaskCallHistory(t) \/ TaskResumeHistory(t)
        \/ TaskCallStatistics(t) \/ TaskResumeStatistics(t)
        \/ TaskCallEntities(t) \/ TaskResumeEntities(t)
        \/ TaskCallLogbook(t) \/ TaskResumeLogbook(t)
        \/ TaskForget(t)

SpecConcurrent == Init /\ [][NextConcurrent]_vars

(***************************************************************************)
(* parse_time_string called on its own, on strings put together from a     *)
(* date, a separator, a time of day and a suffix                            *)
(***************************************************************************)

DateParts ==
    {"2024-01-15", "2024-1-5", "2024-02-29", "2023-02-29", "2024-02-30",
     "0001-01-01", "0000-01-01", "9999-12-31", "2024-13-01", "24-01-15",
     "20240115", "not-a-date", ""}
Separators == {"", "T", " ", "t", "  ", "Z"}
TimeParts ==
    {"", "10:30:00", "10:30", "10", "1:2:3", "23:59:59", "24:00:00", "10:30:60",
     "10:30:00.5", "10:30:00.123", "10:30:00.123456"}
Suffixes == {"", "Z", "z", "ZZ", "+00:00", "+05:30", "-08:00", "+0530", "+24:00"}
TimeStrings ==
    {d \o p \o t \o x : d \in DateParts, p \in Separators, t \in TimeParts,
                        x \in Suffixes}

\* parse_time_string(s) is called: it returns or raises, and touches nothing else
CallParse ==
    /\ parsed = NotParsed
    /\ \E s \in TimeStrings :
        /\ time_str' = s
        /\ parsed' = parse_time_string(s)
        /\ UNCHANGED <<ha_client, clock, ticks, pc, op, args, start_time, end_time,
                       requests, response, result, tasks>>

\* the caller has what the call gave; the next call starts from nothing
ReturnParse ==
    /\ parsed # NotParsed
    /\ time_str' = ""
    /\ parsed' = NotParsed
    /\ UNCHANGED <<ha_client, clock, ticks, pc, op, args, start_time, end_time,
                   requests, response, result, tasks>>

NextParse == CallParse \/ ReturnParse

SpecParse == Init /\ [][NextParse]_vars

(***************************************************************************)
(* Properties                                                               *)
(***************************************************************************)

Done == pc = "done"
Failed == Done /\ result.status = "error"
Succeeded == Done /\ result.status = "ok"
Windowed == {"get_entity_history", "get_entity_statistics", "get_logbook_entries"}

\* the text every failure of the operation starts with
FailurePrefix ==
    IF op = "get_entity_history" THEN "Failed to get entity history: "
    ELSE IF op = "get_entity_statistics" THEN "Failed to get entity statistics: "
    ELSE IF op = "get_available_entities" THEN "Failed to get available entities: "
    ELSE "Failed to get logbook entries: "

\* the causes an operation can fail with before it calls the upstream
InputCauses ==
    {"entity_id must be in format 'domain.entity_name'",
     "period must be one of: hour, day, week, month",
     "date value out of range",
     "Invalid time format: " \o args.start_time.val \o ". Use YYYY-MM-DD or ISO format.",
     "Invalid time format: " \o args.end_time.val \o ". Use YYYY-MM-DD or ISO format."}

UpstreamFailed == response.kind \in {"HTTPStatusError", "RequestError", "Exception"}

\* C1: every failure of an operation (input check, time normalisation, upstream
\* call) reaches the caller as the one error shape of the operation boundary, a
\* ValueError "Failed to ...: <cause>" whose text embeds the cause (the status
\* code and body of a non-2xx answer, the text of a connection failure, the
\* message of the input check); a failed GET never ends in a returned envelope.
C1_UniformOperationFailed ==
    Done =>
        /\ result.status \in {"ok", "error"}
        /\ UpstreamFailed => result.status = "error"
        /\ requests = <<>> => result.status = "error"
        /\ result.status = "error" =>
            /\ result.exc = "ValueError"
            /\ StartsWith(result.message, FailurePrefix)
            /\ requests = <<>> =>
                   \E c \in InputCauses : result.message = FailurePrefix \o c
            /\ requests # <<>> =>
                   /\ UpstreamFailed
                   /\ Contains(result.message, response.text)
                   /\ response.kind = "HTTPStatusError" =>
                          Contains(result.message, IntStr(response.status_code))

\* an upstream 401 has surfaced as the operation's failure, with "401" in it
C1_Witness ==
    /\ Failed /\ op = "get_logbook_entries"
    /\ response.kind = "HTTPStatusError" /\ response.status_code = 401
    /\ Contains(result.message, "401")

HasDot(str) == \E i \in 1..Len(str) : SubSeq(str, i, i) = "."
RejectedEntityId ==
    /\ Failed /\ requests = <<>>
    /\ result.message = FailurePrefix \o "entity_id must be in format 'domain.entity_name'"

\* C2: Entity History and Entity Statistics reject an entity_id exactly when it
\* holds no "." (the empty string included): such a call fails with the
\* entity_id message before anything is sent, and no call whose entity_id holds
\* a "." fails with that message.
C2_EntityIdNeedsDot ==
    (pc # "idle" /\ op \in {"get_entity_history", "get_entity_statistics"}) =>
        (RejectedEntityId <=> ~HasDot(args.entity_id.val))

\* Entity Statistics has rejected the empty entity_id
C2_Witness ==
    /\ op = "get_entity_statistics" /\ args.entity_id.val = "" /\ RejectedEntityId

RejectedPeriod ==
    /\ Failed /\ requests = <<>>
    /\ result.message = FailurePrefix \o "period must be one of: hour, day, week, month"

\* C3: Entity Statistics with an entity_id that holds a "." fails with the
\* period message exactly when period is none of hour, day, week, month.
C3_PeriodOneOfFour ==
    (pc # "idle" /\ op = "get_entity_statistics" /\ HasDot(args.entity_id.val)) =>
        (RejectedPeriod <=> args.period \notin {"hour", "day", "week", "month"})

\* period "fortnight" has been rejected for a well-formed entity_id
C3_Witness ==
    /\ op = "get_entity_statistics" /\ args.entity_id.val = "sensor.temp"
    /\ args.period = "fortnight" /\ RejectedPeriod

\* C4, as claimed: every invocation performs exactly one upstream GET.
C4_ExactlyOneGetAlways == Done => Len(requests) = 1

\* C4, amended: an invocation performs at most one upstream GET: none when it
\* fails on its inputs before calling the upstream, exactly one otherwise (Entity
\* Discovery always one); a GET that fails is not retried, the invocation ends
\* with that failure and the single request.
C4_AtMostOneGetNoRetry ==
    /\ Len(requests) <= 1
    /\ pc = "awaiting" => Len(requests) = 1
    /\ Done =>
        /\ Len(requests) = 0 <=>
               /\ response.kind = "none"
               /\ result.status = "error"
               /\ \E c \in InputCauses : result.message = FailurePrefix \o c
        /\ op = "get_available_entities" => Len(requests) = 1
        /\ UpstreamFailed => Len(requests) = 1 /\ result.status = "error"

\* a GET has timed out or been refused, and the invocation ended with one request
C4_Witness ==
    /\ Failed /\ response.kind = "RequestError" /\ Len(requests) = 1

\* an Optional[str] argument counts as supplied when it is a non-empty string:
\* the code tests `if start_time:` / `if end_time:`, so None and "" are both "not
\* supplied"
Supplied(o) == o.some /\ o.val # ""

\* the query parameters and the path of the one request sent
SentParams == requests[1].params
SentUrl == requests[1].url
PathOf(endpoint, start) ==
    "http://ha.local:8123" \o endpoint \o "/" \o quote(start)

\* the start of the window is in the request: as a path segment (History,
\* Logbook) or as the start_time parameter (Statistics)
StartSentAs(start) ==
    IF op = "get_entity_history" THEN SentUrl = PathOf("/api/history/period", start)
    ELSE IF op = "get_logbook_entries" THEN SentUrl = PathOf("/api/logbook", start)
    ELSE "start_time" \in DOMAIN SentParams /\ SentParams["start_time"] = start

\* C5: in History, Statistics and Logbook every returned envelope has start_time
\* and end_time populated; with no end_time supplied the request carries no
\* end_time parameter and the envelope's end_time is the clock's time when the
\* response is built; with end_time supplied its normalised value is sent as the
\* end_time parameter and returned.
C5_EndTimeAlwaysPopulated ==
    [][(pc = "awaiting" /\ pc' = "done" /\ op \in Windowed /\ result'.status = "ok") =>
          /\ result'.envelope.start_time # ""
          /\ result'.envelope.end_time # ""
          /\ ~Supplied(args.end_time) =>
                 /\ "end_time" \notin DOMAIN SentParams
                 /\ result'.envelope.end_time = IsoFormat(clock')
          /\ Supplied(args.end_time) =>
                 LET normalized == Normalized[args.end_time.val]
                 IN  /\ normalized.ok
                     /\ "end_time" \in DOMAIN SentParams
                     /\ SentParams["end_time"] = normalized.value
                     /\ result'.envelope.end_time = normalized.value
      ]_vars

\* History returned with no end_time supplied, after the clock moved on during
\* the call: the envelope shows the later time
C5_Witness ==
    /\ Succeeded /\ op = "get_entity_history" /\ ~Supplied(args.end_time)
    /\ args.start_time = None /\ args.hours_back = 1
    /\ "end_time" \notin DOMAIN SentParams
    /\ result.envelope.start_time = "2024-02-29T22:59:59.123456"
    /\ result.envelope.end_time = "2024-03-01T00:00:00.123456"

\* now minus the relative default of the operation
DefaultStart(now, a) ==
    IF op' = "get_entity_statistics" THEN MinusDays(now, a.days_back)
    ELSE MinusHours(now, a.hours_back)

\* C6: in History, Statistics and Logbook, with start_time supplied the start
\* sent upstream and returned is the normalised start_time, whatever hours_back
\* or days_back is (it cannot make the call fail either); with none supplied
\* the start is the clock's time at the call minus hours_back hours (History,
\* Logbook) or days_back days (Statistics).
C6_WindowStart ==
    [][/\ (pc = "idle" /\ pc' = "awaiting" /\ op' \in Windowed) =>
            /\ Supplied(args'.start_time) =>
                   start_time' = Normalized[args'.start_time.val].value
            /\ ~Supplied(args'.start_time) =>
                   /\ DefaultStart(clock, args').ok
                   /\ start_time' = IsoFormat(DefaultStart(clock, args').dt)
       /\ (pc = "idle" /\ pc' = "done" /\ op' \in Windowed
              /\ Supplied(args'.start_time)) =>
            result'.message # FailurePrefix' \o "date value out of range"
       /\ (pc = "awaiting" /\ op \in Windowed) => StartSentAs(start_time)
       /\ (pc = "awaiting" /\ pc' = "done" /\ op \in Windowed
              /\ result'.status = "ok") =>
            result'.envelope.start_time = start_time
      ]_vars

\* Statistics returned the supplied start although days_back alone would have
\* been out of range
C6_Witness ==
    /\ Succeeded /\ op = "get_entity_statistics"
    /\ args.start_time = Some("2024-01-15") /\ args.days_back = 800000
    /\ SentParams["start_time"] = "2024-01-15T00:00:00"
    /\ result.envelope.start_time = "2024-01-15T00:00:00"

\* the default window of Logbook, 24 hours back from the call
C6_WitnessDefault ==
    /\ Succeeded /\ op = "get_logbook_entries"
    /\ args.start_time = None /\ args.hours_back = 24
    /\ result.envelope.start_time = "2024-02-28T23:59:59.123456"

\* entity_id and friendly_name of an upstream state record, as Entity Discovery
\* reads them
IdOf(rec) == IF rec.entity_id.some THEN rec.entity_id.val ELSE ""
NameOf(rec) == IF rec.friendly_name.some THEN rec.friendly_name.val ELSE IdOf(rec)

\* the condition of C7 on one state record
Wanted(rec) ==
    /\ \/ ~Supplied(args.domain_filter)
       \/ StartsWith(IdOf(rec), args.domain_filter.val \o ".")
    /\ \/ ~Supplied(args.search_term)
       \/ Contains(Lower(IdOf(rec)), Lower(args.search_term.val))
       \/ Contains(Lower(NameOf(rec)), Lower(args.search_term.val))

\* the upstream records that satisfy it, in upstream order
WantedRecords == SelectSeq(response.body, Wanted)

\* entities lists the records recs, in order
Lists(entities, recs) ==
    /\ Len(entities) = Len(recs)
    /\ \A i \in 1..Len(recs) :
           /\ entities[i].entity_id = IdOf(recs[i])
           /\ entities[i].friendly_name = NameOf(recs[i])

\* C7: with a limit that cuts nothing off, Entity Discovery returns exactly the
\* upstream records, in upstream order, for which (no domain_filter is supplied
\* or entity_id starts with domain_filter and ".") and (no search_term is
\* supplied or the term, case ignored, is part of entity_id or of friendly_name,
\* which is entity_id when the attribute is missing).
C7_DiscoveryFilter ==
    (Succeeded /\ op = "get_available_entities" /\ args.limit >= Len(response.body)) =>
        Lists(result.envelope.entities, WantedRecords)

\* "ROOM" is found in the friendly name "Living Room Temp" alone; the record of
\* sensorx.Fan is not in the domain sensor
C7_Witness ==
    /\ Succeeded /\ op = "get_available_entities"
    /\ args.domain_filter = Some("sensor") /\ args.search_term = Some("ROOM")
    /\ Len(response.body) = 2 /\ IdOf(response.body[1]) = "sensorx.Fan"
    /\ Len(result.envelope.entities) = 1
    /\ result.envelope.entities[1].entity_id = "sensor.temp"

\* the first n items of a list; none for n <= 0
FirstItems(items, n) ==
    SubSeq(items, 1, IF n < 0 THEN 0 ELSE IF n > Len(items) THEN Len(items) ELSE n)

\* the most items a limit allows: a list cannot hold fewer than none
AtMost(limit) == IF limit < 0 THEN 0 ELSE limit

\* C8, as claimed: for every limit, Entity Discovery and Logbook Entries return
\* the first limit items of the filtered list (all of them when there are no
\* more), never more than limit allows, and the reported count is the length of
\* the returned list.
C8_LimitTruncates ==
    /\ (Succeeded /\ op = "get_available_entities") =>
           /\ Len(result.envelope.entities) <= AtMost(args.limit)
           /\ Lists(result.envelope.entities, FirstItems(WantedRecords, args.limit))
           /\ result.envelope.total_entities = Len(result.envelope.entities)
    /\ (Succeeded /\ op = "get_logbook_entries") =>
           /\ Len(result.envelope.entries) <= AtMost(args.limit)
           /\ result.envelope.entries = FirstItems(response.body, args.limit)
           /\ result.envelope.entry_count = Len(result.envelope.entries)

\* C9: Entity History unwraps the upstream list of lists to its first inner
\* list: an upstream [] gives history = [] and data_points = 0 and no error, any
\* other answer gives the first inner list, and data_points is always the length
\* of history.
C9_HistoryUnwrap ==
    (Done /\ op = "get_entity_history" /\ response.kind = "ok") =>
        /\ result.status = "ok"
        /\ response.body = <<>> =>
               result.envelope.history = <<>> /\ result.envelope.data_points = 0
        /\ response.body # <<>> => result.envelope.history = response.body[1]
        /\ result.envelope.data_points = Len(result.envelope.history)

\* the upstream answered with two inner lists and the first one was returned
C9_Witness ==
    /\ Succeeded /\ op = "get_entity_history"
    /\ Len(response.body) = 2 /\ response.body[1] # response.body[2]
    /\ response.body[1] # <<>>
    /\ result.envelope.history = response.body[1]
    /\ result.envelope.data_points = 1

\* the upstream answered [] and History returned an empty envelope
C9_WitnessEmpty ==
    /\ Succeeded /\ op = "get_entity_history" /\ response.body = <<>>
    /\ result.envelope.history = <<>> /\ result.envelope.data_points = 0

\* C10: the client turns every failure of its GET into one of three errors: a
\* non-2xx status into "Home Assistant API error" with the status code and the
\* body text, a network failure (no connection, timeout) into "Failed to connect
\* to Home Assistant" with the cause text, anything else into "Unexpected
\* error"; a 2xx answer with a decodable body is no error.
C10_ClientErrorKinds ==
    (Done /\ requests # <<>>) =>
        /\ response.kind = "ok" => result.status = "ok"
        /\ response.kind = "HTTPStatusError" =>
               /\ result.status = "error"
               /\ result.message = FailurePrefix \o "Home Assistant API error: "
                      \o IntStr(response.status_code) \o " - " \o response.text
        /\ response.kind = "RequestError" =>
               /\ result.status = "error"
               /\ result.message = FailurePrefix
                      \o "Failed to connect to Home Assistant: " \o response.text
        /\ response.kind = "Exception" =>
               /\ result.status = "error"
               /\ result.message = FailurePrefix \o "Unexpected error: " \o response.text

\* a refused connection has surfaced as a connection failure
C10_Witness ==
    /\ Failed /\ op = "get_available_entities" /\ response.kind = "RequestError"
    /\ result.message = "Failed to get available entities: Failed to connect to Home Assistant: All connection attempts failed"

\* the coroutines t and u were called with identical inputs and the upstream
\* gave both the same answer, if it was asked
SameCall(t, u) ==
    /\ tasks[t].pc = "done" /\ tasks[u].pc = "done"
    /\ tasks[t].op = tasks[u].op
    /\ tasks[t].args = tasks[u].args
    /\ tasks[t].response = tasks[u].response

\* the result of a coroutine, its envelope without the fields in `synthesized`
Without(task, synthesized) ==
    IF task.result.status # "ok" THEN task.result
    ELSE [task.result EXCEPT !.envelope =
             [f \in DOMAIN task.result.envelope |->
                 IF f \in synthesized THEN "" ELSE task.result.envelope[f]]]

\* the envelope fields an invocation takes from the clock and not from its inputs
SynthesizedEnd(task) ==
    IF task.op \in Windowed /\ ~Supplied(task.args.end_time) THEN {"end_time"} ELSE {}
SynthesizedStart(task) ==
    IF task.op \in Windowed /\ ~Supplied(task.args.start_time) THEN {"start_time"} ELSE {}

\* a request without the start of its window: History and Logbook carry it as
\* the last path segment, Statistics as the start_time parameter
EndpointOf(task) ==
    IF task.op = "get_entity_history" THEN "http://ha.local:8123/api/history/period"
    ELSE IF task.op = "get_logbook_entries" THEN "http://ha.local:8123/api/logbook"
    ELSE "http://ha.local:8123/api/history/statistics"
WithoutStart(task, request) ==
    [url |-> IF StartsWith(request.url, EndpointOf(task)) THEN EndpointOf(task)
             ELSE request.url,
     headers |-> request.headers,
     params |-> [k \in DOMAIN request.params \ {"start_time"} |-> request.params[k]],
     timeout |-> request.timeout]
RequestsWithoutStart(task) ==
    [i \in 1..Len(task.requests) |-> WithoutStart(task, task.requests[i])]

\* C11, as claimed: two calls of an operation with identical inputs and the same
\* upstream answer send the same request and return the same result, envelope
\* for envelope, in every field but the end_time that was synthesized because
\* none was given.
C11_IdempotentButEndTime ==
    \A t, u \in Tasks :
        SameCall(t, u) =>
            /\ tasks[t].requests = tasks[u].requests
            /\ Without(tasks[t], SynthesizedEnd(tasks[t]))
                   = Without(tasks[u], SynthesizedEnd(tasks[u]))

\* C11, as the code has it: the two results agree in every field but the
\* end_time synthesized because none was given and the start_time synthesized
\* because none was given; the two requests are equal when start_time was given
\* and equal up to the start of the window when it was not.
C11_IdempotentButSynthesized ==
    \A t, u \in Tasks :
        SameCall(t, u) =>
            /\ Supplied(tasks[t].args.start_time) \/ tasks[t].op \notin Windowed
                   => tasks[t].requests = tasks[u].requests
            /\ RequestsWithoutStart(tasks[t]) = RequestsWithoutStart(tasks[u])
            /\ Without(tasks[t], SynthesizedEnd(tasks[t]) \cup SynthesizedStart(tasks[t]))
                   = Without(tasks[u], SynthesizedEnd(tasks[u]) \cup SynthesizedStart(tasks[u]))

\* History was called twice with the same start_time and no end_time, and
\* returned at different times: the envelopes differ in end_time only, the
\* requests are the same
C11_Witness ==
    /\ SameCall("a", "b") /\ tasks["a"].op = "get_entity_history"
    /\ tasks["a"].result.status = "ok"
    /\ Supplied(tasks["a"].args.start_time) /\ ~Supplied(tasks["a"].args.end_time)
    /\ tasks["a"].result.envelope.end_time # tasks["b"].result.envelope.end_time
    /\ tasks["a"].result.envelope.history # <<>>
    /\ tasks["a"].requests = tasks["b"].requests

\* the client as the module builds it at import
ConstructedClient == HomeAssistantClient("http://ha.local:8123", "token", REQUEST_TIMEOUT)

\* an operation run alone with the client as constructed: up to its await when
\* called at `now`, and from the answer `outcome` on when that arrives at `now`
AloneBegin(name, a, now) ==
    IF name = "get_entity_history" THEN history_begin(ConstructedClient, now, a)
    ELSE IF name = "get_entity_statistics" THEN statistics_begin(ConstructedClient, now, a)
    ELSE IF name = "get_available_entities" THEN entities_begin(ConstructedClient, now, a)
    ELSE logbook_begin(ConstructedClient, now, a)
AloneFinish(task, outcome, now) ==
    IF task.op = "get_entity_history"
    THEN history_finish(task.args, task.start_time, task.end_time, outcome, now)
    ELSE IF task.op = "get_entity_statistics"
    THEN statistics_finish(task.args, task.start_time, task.end_time, outcome, now)
    ELSE IF task.op = "get_available_entities"
    THEN entities_finish(task.args, task.start_time, task.end_time, outcome, now)
    ELSE logbook_finish(task.args, task.start_time, task.end_time, outcome, now)
AloneFailure(name) ==
    IF name = "get_entity_history" THEN HistoryFailed
    ELSE IF name = "get_entity_statistics" THEN StatisticsFailed
    ELSE IF name = "get_available_entities" THEN EntitiesFailed
    ELSE LogbookFailed

\* the coroutine was called in this step and did what it does alone
CalledAsAlone(before, after, now) ==
    LET b == AloneBegin(after.op, after.args, now)
    IN  /\ before = IdleTask
        /\ after.requests = b.requests
        /\ after.start_time = b.start_time /\ after.end_time = b.end_time
        /\ after.pc = (IF b.ok THEN "awaiting" ELSE "done")
        /\ after.result = (IF b.ok THEN NoResult
                           ELSE OperationFailed(AloneFailure(after.op), b.error))

\* the coroutine got its answer in this step and ended as it does alone
ResumedAsAlone(before, after, now) ==
    /\ before.pc = "awaiting" /\ after.pc = "done"
    /\ after = [before EXCEPT !.pc = "done", !.response = after.response,
                              !.result = AloneFinish(before, after.response, now)]

\* C12: invocations are independent. No step of any invocation changes the
\* client configuration (base_url, headers, timeout), and under every
\* interleaving of two invocations each step changes one invocation only, whose
\* request and whose envelope or error are those it produces alone with the
\* same arguments, upstream answer and clock.
C12_InvocationsIndependent ==
    [][/\ ha_client' = ha_client
       /\ ha_client = ConstructedClient
       /\ \A t \in Tasks :
            \/ tasks'[t] = tasks[t]
            \/ /\ \A u \in Tasks \ {t} : tasks'[u] = tasks[u]
               /\ \/ CalledAsAlone(tasks[t], tasks'[t], clock)
                  \/ ResumedAsAlone(tasks[t], tasks'[t], clock)
                  \/ tasks[t].pc = "done" /\ tasks'[t] = IdleTask
      ]_vars

\* Statistics was called while History was suspended in its GET, a second
\* later, and has returned while History is still suspended
C12_Witness ==
    /\ tasks["a"].pc = "awaiting" /\ tasks["a"].op = "get_entity_history"
    /\ tasks["b"].pc = "done" /\ tasks["b"].op = "get_entity_statistics"
    /\ tasks["b"].result.status = "ok"
    /\ ~Supplied(tasks["a"].args.start_time) /\ ~Supplied(tasks["b"].args.start_time)
    /\ tasks["a"].start_time = "2024-02-28T23:59:59.123456"
    /\ tasks["b"].start_time = "2024-02-23T00:00:00.123456"
    /\ tasks["b"].requests[1].url = "http://ha.local:8123/api/history/statistics"
    /\ ha_client = ConstructedClient

\* parse_time_string has been called and has returned or raised
Called == parsed # NotParsed

\* s is YYYY-MM-DD, a date of the calendar
IsoDateShape(s) ==
    /\ Len(s) = 10
    /\ AllDigits(SubSeq(s, 1, 4)) /\ CharAt(s, 5) = "-"
    /\ AllDigits(SubSeq(s, 6, 7)) /\ CharAt(s, 8) = "-"
    /\ AllDigits(SubSeq(s, 9, 10))
    /\ ToInt(SubSeq(s, 1, 4)) >= 1
    /\ ToInt(SubSeq(s, 6, 7)) \in 1..12
    /\ ToInt(SubSeq(s, 9, 10)) >= 1
    /\ ToInt(SubSeq(s, 9, 10))
           <= DaysInMonth(ToInt(SubSeq(s, 1, 4)), ToInt(SubSeq(s, 6, 7)))

\* s is HH:MM:SS, a time of the day
IsoClockShape(s) ==
    /\ Len(s) = 8
    /\ AllDigits(SubSeq(s, 1, 2)) /\ CharAt(s, 3) = ":"
    /\ AllDigits(SubSeq(s, 4, 5)) /\ CharAt(s, 6) = ":"
    /\ AllDigits(SubSeq(s, 7, 8))
    /\ ToInt(SubSeq(s, 1, 2)) < 24
    /\ ToInt(SubSeq(s, 4, 5)) < 60
    /\ ToInt(SubSeq(s, 7, 8)) < 60

\* s is nothing or .ffffff
IsoFractionShape(s) ==
    s = "" \/ (Len(s) = 7 /\ CharAt(s, 1) = "." /\ AllDigits(SubSeq(s, 2, 7)))

\* s is nothing or +HH:MM or -HH:MM
IsoOffsetShape(s) ==
    \/ s = ""
    \/ /\ Len(s) = 6
       /\ CharAt(s, 1) \in {"+", "-"}
       /\ AllDigits(SubSeq(s, 2, 3)) /\ CharAt(s, 4) = ":"
       /\ AllDigits(SubSeq(s, 5, 6))
       /\ ToInt(SubSeq(s, 2, 3)) < 24 /\ ToInt(SubSeq(s, 5, 6)) < 60

\* s is YYYY-MM-DD, one character `sep`, HH:MM:SS
DateAndClock(s, sep) ==
    /\ Len(s) = 19
    /\ IsoDateShape(SubSeq(s, 1, 10))
    /\ CharAt(s, 11) = sep
    /\ IsoClockShape(SubSeq(s, 12, 19))

\* v is an ISO-8601 date and time: YYYY-MM-DDTHH:MM:SS[.ffffff][+HH:MM]
IsIso8601(v) ==
    /\ Len(v) >= 19
    /\ DateAndClock(SubSeq(v, 1, 19), "T")
    /\ \E k \in {0, 7} :
           /\ 19 + k <= Len(v)
           /\ IsoFractionShape(SubSeq(v, 20, 19 + k))
           /\ IsoOffsetShape(SubSeq(v, 20 + k, Len(v)))

ParsedAs(v) == parsed = [ok |-> TRUE, value |-> v]

\* C13: parse_time_string is total: for every string it returns an ISO-8601
\* string or raises the ValueError "Invalid time format: <input>. Use
\* YYYY-MM-DD or ISO format.", and nothing else. YYYY-MM-DD gives that date at
\* midnight, YYYY-MM-DDTHH:MM:SS gives itself, YYYY-MM-DD HH:MM:SS gives the
\* same with a "T", and a trailing Z is read as +00:00. The call changes
\* nothing: no request, no invocation, the client as constructed.
C13_NormalizeTimeTotal ==
    Called =>
        /\ parsed.ok => IsIso8601(parsed.value)
        /\ ~parsed.ok =>
               parsed.value = "Invalid time format: " \o time_str
                                  \o ". Use YYYY-MM-DD or ISO format."
        /\ IsoDateShape(time_str) => ParsedAs(time_str \o "T00:00:00")
        /\ DateAndClock(time_str, "T") => ParsedAs(time_str)
        /\ DateAndClock(time_str, " ") =>
               ParsedAs(SubSeq(time_str, 1, 10) \o "T" \o SubSeq(time_str, 12, 19))
        /\ (Len(time_str) = 20 /\ DateAndClock(SubSeq(time_str, 1, 19), "T")
                /\ CharAt(time_str, 20) = "Z") =>
               ParsedAs(SubSeq(time_str, 1, 19) \o "+00:00")
        /\ time_str = "2024-01-15" => ParsedAs("2024-01-15T00:00:00")
        /\ time_str = "2024-01-15T10:30:00Z" => ParsedAs("2024-01-15T10:30:00+00:00")
        /\ time_str = "not-a-date" => ~parsed.ok
        /\ ha_client = ConstructedClient
        /\ pc = "idle" /\ requests = <<>> /\ result = NoResult
        /\ \A t \in Tasks : tasks[t] = IdleTask

\* the string with the trailing Z was parsed and came back with +00:00
C13_Witness ==
    /\ Called /\ time_str = "2024-01-15T10:30:00Z"
    /\ parsed = [ok |-> TRUE, value |-> "2024-01-15T10:30:00+00:00"]

\* a string no format accepts was refused under its name
C13_WitnessInvalid ==
    /\ Called /\ time_str = "not-a-date"
    /\ parsed = [ok |-> FALSE,
                 value |-> "Invalid time format: not-a-date. Use YYYY-MM-DD or ISO format."]

\* s is written in one of the forms time normalisation reads: a date, a date
\* and a time of day joined by "T" or a blank, or the former followed by "Z"
Normalizable(s) ==
    \/ IsoDateShape(s)
    \/ DateAndClock(s, "T")
    \/ DateAndClock(s, " ")
    \/ Len(s) = 20 /\ DateAndClock(SubSeq(s, 1, 19), "T") /\ CharAt(s, 20) = "Z"

\* the argument is given and cannot be normalised
NotNormalizable(o) == Supplied(o) /\ ~Normalizable(o.val)

\* the invocation's inputs do not pass the checks of its operation
InputsRejected ==
    \/ op \in {"get_entity_history", "get_entity_statistics"}
           /\ ~HasDot(args.entity_id.val)
    \/ op = "get_entity_statistics"
           /\ args.period \notin {"hour", "day", "week", "month"}
    \/ op \in Windowed /\ NotNormalizable(args.start_time)
    \/ op \in Windowed /\ NotNormalizable(args.end_time)

\* C14: validation precedes the upstream call. An invocation of History,
\* Statistics or Logbook whose entity_id holds no ".", whose period is not one
\* of the four, or whose start_time or end_time cannot be normalised, has failed
\* as soon as it has run and has sent no request, then or later; a request is in
\* flight or answered only for inputs that pass every check.
C14_ValidationBeforeRequest ==
    (pc # "idle" /\ op \in Windowed) =>
        /\ InputsRejected => (Failed /\ requests = <<>> /\ response = NoResponse)
        /\ requests # <<>> => ~InputsRejected

\* Statistics passed the entity_id check, the period check and the
\* normalisation of start_time, failed on end_time, and had sent nothing
C14_Witness ==
    /\ Failed /\ op = "get_entity_statistics"
    /\ args.entity_id.val = "sensor.temp" /\ args.period = "week"
    /\ args.start_time = Some("2024-01-15") /\ args.end_time = Some("not-a-date")
    /\ requests = <<>>
    /\ result.message = "Failed to get entity statistics: Invalid time format: not-a-date. Use YYYY-MM-DD or ISO format."

====
